---- MODULE Spec2Model ----
(***************************************************************************)
(* Model of the test-generation pipeline (pipeline/generate_tests.py):     *)
(* the command-line entry point main, the per-file workflow                *)
(* process_code_file, the evaluation workflow evaluate_test_file, the      *)
(* directory batch batch_process_directory and the report print_summary.   *)
(* The file system, the clock and the completion service are the           *)
(* environment: the disk is chosen in Init, the clock and the service      *)
(* answer nondeterministically when they are called.                       *)
(***************************************************************************)
EXTENDS Integers, Sequences, FiniteSets, TLC

\* ------------------------------------------------------------------ bounds
\* Largest number of *.py files in the batch directory.
MaxFiles == 2
\* Largest reading of the wall clock (seconds since the run started).
MaxClock == 1
\* Largest number of function and class declarations in an analyzed source.
MaxNodes == 3

\* --------------------------------------------------------------- constants
\* Python's None, for values that are strings when present.
None == "<None>"
\* A path argument that was not given.
NoPath == [dir |-> None, stem |-> 0, ext |-> None]
\* main's argparse defaults.
DefaultDir == "sample-code"
DefaultOutput == "generated-tests"
EvalOutput == "test-evaluations"
AgentPath == "AGENTS.md"
SkillPath == ".github/skills/test-strategy/SKILL.md"

\* ------------------------------------------------------------ source texts
\* A parsed module is a sequence of statements; a FunctionDef or ClassDef
\* node carries its name, line, argument names and body, any other
\* statement is of type "Stmt".
FunctionDef(name, lineno, args, body) ==
  [type |-> "FunctionDef", name |-> name, lineno |-> lineno, args |-> args, body |-> body]
ClassDef(name, lineno, body) ==
  [type |-> "ClassDef", name |-> name, lineno |-> lineno, args |-> <<>>, body |-> body]
Stmt(lineno) ==
  [type |-> "Stmt", name |-> "", lineno |-> lineno, args |-> <<>>, body |-> <<>>]

\* The source texts on the model's disk.  "bad" does not parse.
SourceTexts == {"bad", "add", "cart"}
TestTexts == {"test_add"}

\* ast.parse: the statements of a text, or a SyntaxError.
SyntaxErrorText == "invalid syntax (<unknown>, line 1)"
ast_parses(code) == code # "bad"
ast_parse(code) ==
  CASE code = "add" -> << FunctionDef("add", 1, <<"a", "b">>, << Stmt(2) >>) >>
    [] code = "cart" ->
         << ClassDef("Cart", 1,
              << FunctionDef("__init__", 2, <<"self">>, << Stmt(3) >>),
                 FunctionDef("total", 4, <<"self">>, << Stmt(5) >>) >>),
            FunctionDef("_helper", 6, <<>>, << Stmt(7) >>) >>
    [] code = "test_add" -> << FunctionDef("test_add", 1, <<>>, << Stmt(2) >>) >>
    [] OTHER -> << >>
\* ast.walk: breadth-first, a node's children queued behind the nodes
\* already waiting.
AsWalkTopLevelOnly(todo) == todo
RECURSIVE ast_walk(_)
ast_walk(todo) ==
  IF todo = << >> THEN << >>
  ELSE << Head(todo) >> \o ast_walk(Tail(todo) \o Head(todo).body)

startswith_underscore(name) ==
  name \in {"__init__", "_helper", "_private", "_Hidden"}

RECURSIVE AsCollectFunctionsUnfiltered(_)
AsCollectFunctionsUnfiltered(nodes) ==
  IF nodes = << >> THEN << >>
  ELSE LET node == Head(nodes) IN
       (IF node.type = "FunctionDef"
        THEN << [name |-> node.name, line |-> node.lineno, args |-> node.args] >>
        ELSE << >>) \o AsCollectFunctionsUnfiltered(Tail(nodes))
RECURSIVE collect_functions(_)
collect_functions(nodes) ==
  IF nodes = << >> THEN << >>
  ELSE LET node == Head(nodes) IN
       (IF node.type = "FunctionDef" /\ ~startswith_underscore(node.name)
        THEN << [name |-> node.name, line |-> node.lineno, args |-> node.args] >>
        ELSE << >>) \o collect_functions(Tail(nodes))

RECURSIVE collect_methods(_)
collect_methods(body) ==
  IF body = << >> THEN << >>
  ELSE LET item == Head(body) IN
       (IF item.type = "FunctionDef" /\ ~startswith_underscore(item.name)
        THEN << item.name >> ELSE << >>) \o collect_methods(Tail(body))

RECURSIVE AsCollectClassesPublicOnly(_)
AsCollectClassesPublicOnly(nodes) ==
  IF nodes = << >> THEN << >>
  ELSE LET node == Head(nodes) IN
       (IF node.type = "ClassDef" /\ ~startswith_underscore(node.name)
        THEN << [name |-> node.name, line |-> node.lineno,
                 methods |-> collect_methods(node.body)] >>
        ELSE << >>) \o AsCollectClassesPublicOnly(Tail(nodes))
RECURSIVE collect_classes(_)
collect_classes(nodes) ==
  IF nodes = << >> THEN << >>
  ELSE LET node == Head(nodes) IN
       (IF node.type = "ClassDef"
        THEN << [name |-> node.name, line |-> node.lineno,
                 methods |-> collect_methods(node.body)] >>
        ELSE << >>) \o collect_classes(Tail(nodes))

\* The characters of a text, line by line: the content of a line is one
\* token, the separator '\n' another.
NL == << "\n" >>
source_text(code) ==
  CASE code = "add" -> << << "def add(a, b):" >>, NL, << "    return a + b" >>, NL >>
    [] code = "cart" -> << << "class Cart:" >>, NL, << "    def __init__(self):" >>, NL,
                           << "        self.items = []" >>, NL,
                           << "    def total(self):" >>, NL,
                           << "        return 0" >>, NL,
                           << "def _helper():" >>, NL, << "    pass" >>, NL >>
    [] code = "test_add" -> << << "def test_add():" >>, NL,
                               << "    assert add(1, 2) == 3" >>, NL >>
    [] code = "bad" -> << << "def (:" >>, NL >>
    [] OTHER -> << >>

\* len(text.split('\n')): one more than the number of separators.
RECURSIVE count_separators(_)
count_separators(text) ==
  IF text = << >> THEN 0
  ELSE (IF Head(text) = NL THEN 1 ELSE 0) + count_separators(Tail(text))
AsSplitCountsSeparators(text) == count_separators(text)
split_count(text) == count_separators(text) + 1

\* complexity = len(functions) + len(classes) * 2
AsComplexityCountsClassesOnce(functions, classes) == Len(functions) + Len(classes)
complexity_score(functions, classes) == Len(functions) + Len(classes) * 2

\* analyze_code_file after the read: src is the text read, whether
\* ast.parse accepts it and the tree ast.parse returns.
analyze_source(file_path, src) ==
  IF ~src.parses
  THEN [file |-> file_path, error |-> << "Syntax error: ", SyntaxErrorText >>,
        testable |-> FALSE]
  ELSE LET nodes == ast_walk(src.tree)
           functions == collect_functions(nodes)
           classes == collect_classes(nodes)
       IN [file |-> file_path, functions |-> functions, classes |-> classes,
           complexity |-> complexity_score(functions, classes),
           lines |-> split_count(src.text), testable |-> TRUE]

\* The source behind one of the named texts.
NamedSource(code) ==
  [parses |-> ast_parses(code), tree |-> ast_parse(code), text |-> source_text(code)]

\* analyze_code_file, given the path and the text read from it.
analyze_code(file_path, code) == analyze_source(file_path, NamedSource(code))

\* ------------------------------------------------------------------- state
VARIABLES
  args,          \* the parsed command line
  api_key,       \* args.api_key or os.environ.get("ANTHROPIC_API_KEY")
  HAS_ANTHROPIC, \* whether "import anthropic" succeeded
  disk,          \* input files: path -> [readable, content]
  input_dirs,    \* directories that exist when the run starts
  now,           \* the wall clock
  pc,            \* position of the run
  exit_code,     \* << >> while running, << status >> once the process ended
  py_files,      \* the files of the run, in processing order
  idx,           \* index in py_files of the file being processed
  results,       \* main's results list
  code_content,  \* local of process_code_file / test_code of evaluate_test_file
  source_code,   \* local of evaluate_test_file
  analysis,      \* local of process_code_file
  prompt,        \* local of both workflows
  timestamp,     \* local of both workflows
  out_dirs,      \* directories created by os.makedirs
  artifacts,     \* files written by the run: path -> content
  gateway_log,   \* calls of generate_tests_with_ai, oldest first
  summary,       \* what print_summary printed
  an_source,     \* analyze_code_file alone: the source it is called on
  an_result,     \* analyze_code_file alone: the dictionary it returned
  an_pc,         \* analyze_code_file alone: "idle", "start" or "done"
  items,           \* ShoppingCart.items: CartItems in insertion order
  discount_code,   \* ShoppingCart.discount_code
  discount_amount, \* ShoppingCart.discount_amount, in cents
  cart_raised,     \* the exception the last ShoppingCart call raised, or None
  cart_returned,   \* what the last ShoppingCart call returned, or None
  cart_calls,      \* number of ShoppingCart calls made so far
  users,           \* Database.users: user id -> user dictionary
  svc_raised,      \* the exception the last UserService call raised, or None
  svc_returned     \* what the last UserService call returned

pipeline_vars == << args, api_key, HAS_ANTHROPIC, disk, input_dirs, now, pc, exit_code,
                    py_files, idx, results, code_content, source_code, analysis, prompt,
                    timestamp, out_dirs, artifacts, gateway_log, summary >>
analyzer_vars == << an_source, an_result, an_pc >>
\* The components that a run of main does not touch.
cart_vars == << items, discount_code, discount_amount, cart_raised, cart_returned,
                cart_calls >>
user_vars == << users, svc_raised, svc_returned >>
others == << analyzer_vars, cart_vars, user_vars >>

vars == << pipeline_vars, others >>

\* What a run of main leaves alone: its environment and the other components.
env == << args, api_key, HAS_ANTHROPIC, disk, input_dirs, others >>
locals == << code_content, source_code, analysis, prompt, timestamp >>

\* Values of locals outside a call.
NoAnalysis == [file |-> NoPath, testable |-> FALSE]
NoSource == [parses |-> FALSE, tree |-> << >>, text |-> << >>]
NoPrompt == << >>
NoSummary == [printed |-> FALSE]

\* What the completion service can answer.
GatewayTexts == {"tests_v1", "tests_v2"}
GatewayErrors == {"timeout", "auth rejected"}

\* Python truthiness of an optional string.
AsTruthyNotNone(s) == s # None
truthy(s) == s # None /\ s # ""
\* Python's "a or b" on optional strings.
py_or(a, b) == IF truthy(a) THEN a ELSE b

\* os.path.exists
path_exists(p) == p \in DOMAIN disk
dir_exists(d) == d \in input_dirs

\* ---------------------------------------------------------- initial states
CodePath(d, n) == [dir |-> d, stem |-> n, ext |-> "py"]
\* What a file on the disk can be: unreadable, or readable with some text.
FileKinds(texts) ==
  {[readable |-> FALSE, content |-> None]} \cup
  {[readable |-> TRUE, content |-> c] : c \in texts}

\* The optional instruction and rubric files.
AuxDisks ==
  { f \in [ {AgentPath, SkillPath} -> {None, "text"} ] : TRUE }
AuxEntries(aux) ==
  { [dir |-> ".", stem |-> 0, ext |-> a] : a \in {x \in DOMAIN aux : aux[x] # None} }

NotesFile == [dir |-> DefaultDir, stem |-> 0, ext |-> "txt"]

Args(file, evaluate, source) ==
  [file |-> file, evaluate |-> evaluate, source |-> source, dir |-> DefaultDir,
   output |-> DefaultOutput, agent |-> AgentPath, skill |-> SkillPath]

\* Disk with the given files (a function path -> kind) plus the aux files.
DiskOf(files, aux) ==
  [p \in DOMAIN files \cup AuxEntries(aux) |->
     IF p \in DOMAIN files THEN files[p]
     ELSE [readable |-> TRUE, content |-> "text"]]

\* The other components while main runs.
AnalyzerIdle ==
  /\ an_source = NoSource
  /\ an_result = NoAnalysis
  /\ an_pc = "idle"
\* ShoppingCart.__init__: an empty cart on which nothing was called.
CartIdle ==
  /\ items = << >>
  /\ discount_code = None
  /\ discount_amount = 0
  /\ cart_raised = None
  /\ cart_returned = None
  /\ cart_calls = 0
\* What a UserService call returns: None, a bool or a dictionary.
ReturnedNone == [none |-> TRUE]
ReturnedBool(b) == [bool |-> b]
ReturnedDict(d) == [dict |-> d]
\* Database.__init__: no user, and nothing was called on the UserService.
UsersIdle ==
  /\ users = << >>
  /\ svc_raised = None
  /\ svc_returned = ReturnedNone
OthersIdle == AnalyzerIdle /\ CartIdle /\ UsersIdle

InitCommon ==
  /\ \E arg_key \in {None, "sk-arg"}, env_key \in {None, "", "sk-env"} :
        api_key = py_or(arg_key, env_key)
  /\ HAS_ANTHROPIC \in BOOLEAN
  /\ now = 0
  /\ pc = "main"
  /\ exit_code = << >>
  /\ py_files = << >>
  /\ idx = 0
  /\ results = << >>
  /\ code_content = None
  /\ source_code = None
  /\ analysis = NoAnalysis
  /\ prompt = NoPrompt
  /\ timestamp = 0
  /\ out_dirs = {}
  /\ artifacts = << >>
  /\ gateway_log = << >>
  /\ summary = NoSummary
  /\ OthersIdle

\* python generate_tests.py [--dir sample-code]
InitDir ==
  /\ args = Args(NoPath, NoPath, NoPath)
  /\ \E aux \in AuxDisks :
     \/ /\ input_dirs = {}
        /\ disk = DiskOf(<< >>, aux)
     \/ /\ input_dirs = {DefaultDir}
        /\ \E stems \in SUBSET (1 .. MaxFiles) :
           \E kinds \in [stems -> FileKinds(SourceTexts)] :
             disk = DiskOf([p \in {CodePath(DefaultDir, n) : n \in stems} \cup {NotesFile}
                             |-> IF p = NotesFile
                                 THEN [readable |-> TRUE, content |-> "text"]
                                 ELSE kinds[p.stem]], aux)

\* python generate_tests.py src/1.py
InitFile ==
  /\ args = Args(CodePath("src", 1), NoPath, NoPath)
  /\ input_dirs \in {{}, {DefaultDir}}
  /\ \E aux \in AuxDisks :
     \/ disk = DiskOf(<< >>, aux)
     \/ \E kind \in FileKinds(SourceTexts) :
          disk = DiskOf([p \in {CodePath("src", 1)} |-> kind], aux)

\* python generate_tests.py --evaluate tests/1.py [--source src/1.py] [src/2.py]
InitEvaluate ==
  /\ \E file \in {NoPath, CodePath("src", 2)}, source \in {NoPath, CodePath("src", 1)} :
       args = Args(file, CodePath("tests", 1), source)
  /\ input_dirs \in {{}, {DefaultDir}}
  /\ \E aux \in AuxDisks :
     \E tests \in SUBSET {CodePath("tests", 1)}, sources \in SUBSET {CodePath("src", 1)} :
     \E tkind \in [tests -> FileKinds(TestTexts)],
        skind \in [sources -> FileKinds({"add", ""})] :
       disk = DiskOf([p \in tests \cup sources |->
                        IF p \in tests THEN tkind[p] ELSE skind[p]], aux)

Init == InitCommon /\ (InitDir \/ InitFile \/ InitEvaluate)

\* ------------------------------------------------------- files and formats
Mode == IF args.evaluate # NoPath THEN "evaluate"
        ELSE IF args.file # NoPath THEN "file" ELSE "dir"

\* Path(p).stem and Path(p).name
path_stem(p) == ToString(p.stem)
path_name(p) == << ToString(p.stem), ".", p.ext >>

\* open(path, 'w') ... f.write(content)
write_file(fs, path, content) ==
  [q \in DOMAIN fs \cup {path} |-> IF q = path THEN content ELSE fs[q]]

\* sorted(Path(directory).glob("*.py"))
glob_py(directory) == {p \in DOMAIN disk : p.dir = directory /\ p.ext = "py"}
RECURSIVE sorted(_)
sorted(paths) ==
  IF paths = {} THEN << >>
  ELSE LET first == CHOOSE p \in paths : \A q \in paths : p.stem <= q.stem
       IN << first >> \o sorted(paths \ {first})

\* load_agent_instructions / load_skill_rubric
load_text(path) ==
  LET p == [dir |-> ".", stem |-> 0, ext |-> path]
  IN IF path_exists(p) THEN disk[p].content ELSE ""
load_agent_instructions(agent_path) == load_text(agent_path)
load_skill_rubric(skill_path) == load_text(skill_path)

\* analyze_code_file: opens the file itself.
analyze_code_file(file_path) == analyze_code(file_path, disk[file_path].content)

RECURSIVE function_lines(_)
function_lines(functions) ==
  IF functions = << >> THEN << >>
  ELSE << << "- ", Head(functions).name, "()" >> >> \o function_lines(Tail(functions))
RECURSIVE class_lines(_)
class_lines(classes) ==
  IF classes = << >> THEN << >>
  ELSE << << "- ", Head(classes).name, " with methods: " >> \o Head(classes).methods >>
       \o class_lines(Tail(classes))

create_test_generation_prompt(code_path, content, an, agent_instructions, skill_rubric) ==
  LET functions_list == function_lines(an.functions)
      classes_list == class_lines(an.classes)
  IN [kind |-> "TEST GENERATION GUIDELINES",
      instructions |-> agent_instructions,
      rubric |-> skill_rubric,
      file |-> code_path,
      complexity |-> an.complexity,
      framework |-> "pytest",
      functions |-> IF functions_list # << >> THEN functions_list ELSE << << "None" >> >>,
      classes |-> IF classes_list # << >> THEN classes_list ELSE << << "None" >> >>,
      code |-> content]

AsEvalPromptSectionUnlessNone(test_code, src, agent_instructions, skill_rubric) ==
  LET source_section == IF src # None
                        THEN << "### Source Code Being Tested:", src >>
                        ELSE << >>
  IN [kind |-> "TEST EVALUATION RUBRIC",
      instructions |-> agent_instructions,
      rubric |-> skill_rubric,
      tests |-> test_code,
      source_section |-> source_section]
create_test_evaluation_prompt(test_code, src, agent_instructions, skill_rubric) ==
  LET source_section == IF truthy(src)
                        THEN << "### Source Code Being Tested:", src >>
                        ELSE << >>
  IN [kind |-> "TEST EVALUATION RUBRIC",
      instructions |-> agent_instructions,
      rubric |-> skill_rubric,
      tests |-> test_code,
      source_section |-> source_section]

\* Output paths of process_code_file and evaluate_test_file.
OutPath(output_dir, name) == [dir |-> output_dir, name |-> name]
analysis_file(output_dir, basename) == OutPath(output_dir, << basename, "_analysis.txt" >>)
AsPromptFileShared(output_dir, basename) == OutPath(output_dir, << "prompt.txt" >>)
prompt_file(output_dir, basename) == OutPath(output_dir, << basename, "_prompt.txt" >>)
test_file(output_dir, basename, ts) ==
  OutPath(output_dir, << "test_", basename, "_", ToString(ts), ".py" >>)
eval_file(output_dir, basename, ts) ==
  OutPath(output_dir, << basename, "_evaluation_", ToString(ts), ".md" >>)
eval_prompt_file(output_dir, basename) == OutPath(output_dir, << basename, "_eval_prompt.txt" >>)

\* The analysis summary written by process_code_file.
analysis_text(basename, code_path, an) ==
  [kind |-> "Code Analysis", basename |-> basename, file |-> code_path,
   lines |-> an.lines, complexity |-> an.complexity,
   functions |-> [i \in 1 .. Len(an.functions) |->
                    << an.functions[i].name, an.functions[i].line >>],
   classes |-> [i \in 1 .. Len(an.classes) |->
                  << an.classes[i].name, an.classes[i].line, an.classes[i].methods >>]]
AsSaveAnalysisSkipped(fs, path, basename, code_path, an) == fs
save_analysis(fs, path, basename, code_path, an) ==
  write_file(fs, path, analysis_text(basename, code_path, an))

\* The generated-test file: header block, then the model's text.
AsTestsTextHeaderOnly(basename, generated, code_path, generated_tests) ==
  [kind |-> "Generated Tests", basename |-> basename, generated |-> generated,
   source |-> code_path, body |-> ""]
tests_text(basename, generated, code_path, generated_tests) ==
  [kind |-> "Generated Tests", basename |-> basename, generated |-> generated,
   source |-> code_path, body |-> generated_tests]

\* The evaluation document: the source line only "if source_path".
evaluation_text(basename, evaluated, test_path, source_path, evaluation) ==
  [kind |-> "Test Suite Evaluation", basename |-> basename, evaluated |-> evaluated,
   test |-> test_path,
   source |-> IF source_path # NoPath THEN << source_path >> ELSE << >>,
   body |-> evaluation]

\* The result dictionaries.
AsErrorResultUnknown(error) == [status |-> "error", error |-> << "Unknown error" >>]
error_result(error) == [status |-> "error", error |-> error]
completed_result(code_path, tfile, afile, an) ==
  [status |-> "completed", code_path |-> code_path, test_file |-> tfile,
   analysis_file |-> afile, analysis |-> an]
prompt_only_result(code_path, pfile, afile) ==
  [status |-> "prompt_only", code_path |-> code_path, prompt_file |-> pfile,
   analysis_file |-> afile]
eval_completed_result(test_path, efile) ==
  [status |-> "completed", test_path |-> test_path, evaluation_file |-> efile]
eval_prompt_only_result(test_path, pfile) ==
  [status |-> "prompt_only", test_path |-> test_path, prompt_file |-> pfile]

\* str(e) of the exception the gateway raised.
str_exception(e) == << e >>

\* ----------------------------------------------------------- print_summary
\* [r for r in results if r.get('status') == status]
RECURSIVE AsStatusBucketReversed(_, _)
AsStatusBucketReversed(rs, status) ==
  IF rs = << >> THEN << >>
  ELSE AsStatusBucketReversed(Tail(rs), status)
       \o (IF Head(rs).status = status THEN << Head(rs) >> ELSE << >>)
RECURSIVE status_bucket(_, _)
status_bucket(rs, status) ==
  IF rs = << >> THEN << >>
  ELSE (IF Head(rs).status = status THEN << Head(rs) >> ELSE << >>)
       \o status_bucket(Tail(rs), status)

completed_line(r, mode) ==
  IF mode = "generate"
  THEN [name |-> path_name(r.code_path), target |-> r.test_file]
  ELSE [name |-> path_name(r.test_path), target |-> r.evaluation_file]
prompt_only_line(r, mode) ==
  LET key == IF mode = "generate" THEN "code_path" ELSE "test_path"
  IN [name |-> path_name(r[key]), target |-> r.prompt_file]
error_line(r) ==
  LET key == IF "code_path" \in DOMAIN r THEN "code_path" ELSE "test_path"
      error == IF "error" \in DOMAIN r THEN r.error ELSE << "Unknown error" >>
  IN IF key \in DOMAIN r
     THEN [name |-> path_name(r[key]), target |-> error]
     ELSE [target |-> error]

print_summary(rs, mode) ==
  LET completed == status_bucket(rs, "completed")
      prompt_only == status_bucket(rs, "prompt_only")
      errors == status_bucket(rs, "error")
  IN [printed |-> TRUE,
      total |-> Len(rs),
      n_completed |-> Len(completed),
      n_prompt_only |-> Len(prompt_only),
      n_errors |-> Len(errors),
      completed |-> [i \in 1 .. Len(completed) |-> completed_line(completed[i], mode)],
      prompt_only |-> [i \in 1 .. Len(prompt_only) |-> prompt_only_line(prompt_only[i], mode)],
      errors |-> [i \in 1 .. Len(errors) |-> error_line(errors[i])]]

\* ----------------------------------------------------------------- actions
\* sys.exit(status), or an uncaught exception (status 1).
Exit(status) ==
  /\ pc' = "exited"
  /\ exit_code' = << status >>

\* datetime.now(): the clock never runs backwards.
ClockReadings == now .. MaxClock

\* A workflow returns result r to its caller, which appends it to results;
\* batch_process_directory goes on with the next file.
AsReturnStopOnError(r) ==
  /\ results' = Append(results, r)
  /\ code_content' = None
  /\ source_code' = None
  /\ analysis' = NoAnalysis
  /\ prompt' = NoPrompt
  /\ timestamp' = 0
  /\ IF idx < Len(py_files) /\ r.status # "error"
     THEN idx' = idx + 1 /\ pc' = "read"
     ELSE idx' = idx /\ pc' = "summary"
Return(r) ==
  /\ results' = Append(results, r)
  /\ code_content' = None
  /\ source_code' = None
  /\ analysis' = NoAnalysis
  /\ prompt' = NoPrompt
  /\ timestamp' = 0
  /\ IF idx < Len(py_files)
     THEN idx' = idx + 1 /\ pc' = "read"
     ELSE idx' = idx /\ pc' = "summary"

\* main: the credential and the client library.
MainCheckLibrary ==
  /\ pc = "main"
  /\ IF truthy(api_key) /\ ~HAS_ANTHROPIC
     THEN Exit(1)
     ELSE pc' = "dispatch" /\ exit_code' = exit_code
  /\ UNCHANGED << env, now, py_files, idx, results, locals, out_dirs, artifacts,
                  gateway_log, summary >>

\* main: --evaluate TEST_FILE
MainEvaluate ==
  /\ pc = "dispatch"
  /\ args.evaluate # NoPath
  /\ IF ~path_exists(args.evaluate)
     THEN Exit(1) /\ UNCHANGED << py_files, idx >>
     ELSE /\ py_files' = << args.evaluate >>
          /\ idx' = 1
          /\ pc' = "eval_read"
          /\ exit_code' = exit_code
  /\ UNCHANGED << env, now, results, locals, out_dirs, artifacts, gateway_log, summary >>

\* main: a positional file
MainFile ==
  /\ pc = "dispatch"
  /\ args.evaluate = NoPath
  /\ args.file # NoPath
  /\ IF ~path_exists(args.file)
     THEN Exit(1) /\ UNCHANGED << py_files, idx >>
     ELSE /\ py_files' = << args.file >>
          /\ idx' = 1
          /\ pc' = "read"
          /\ exit_code' = exit_code
  /\ UNCHANGED << env, now, results, locals, out_dirs, artifacts, gateway_log, summary >>

\* main: the directory; batch_process_directory up to its loop.
MainDir ==
  /\ pc = "dispatch"
  /\ args.evaluate = NoPath
  /\ args.file = NoPath
  /\ IF ~dir_exists(args.dir)
     THEN Exit(1) /\ UNCHANGED << py_files, idx >>
     ELSE LET found == sorted(glob_py(args.dir))
          IN /\ py_files' = found
             /\ exit_code' = exit_code
             /\ IF found = << >>
                THEN idx' = idx /\ pc' = "summary"
                ELSE idx' = 1 /\ pc' = "read"
  /\ UNCHANGED << env, now, results, locals, out_dirs, artifacts, gateway_log, summary >>

\* process_code_file [1/6]: open(code_path) outside any try.
ReadCodeFile ==
  /\ pc = "read"
  /\ LET code_path == py_files[idx]
     IN IF ~disk[code_path].readable
        THEN Exit(1) /\ UNCHANGED code_content
        ELSE /\ code_content' = disk[code_path].content
             /\ pc' = "analyze"
             /\ exit_code' = exit_code
  /\ UNCHANGED << env, now, py_files, idx, results, source_code, analysis, prompt,
                  timestamp, out_dirs, artifacts, gateway_log, summary >>

\* process_code_file, "if not analysis['testable']": the error is returned
\* before the output directory is made.
AsReturnUntestableAfterMakedirs(an) ==
  /\ Return(error_result(an.error))
  /\ out_dirs' = out_dirs \cup {args.output}
ReturnUntestable(an) ==
  /\ Return(error_result(an.error))
  /\ out_dirs' = out_dirs

\* process_code_file [2/6]: analyze, return the error of an untestable file.
AnalyzeCode ==
  /\ pc = "analyze"
  /\ LET an == analyze_code_file(py_files[idx])
     IN IF ~an.testable
        THEN ReturnUntestable(an)
        ELSE /\ analysis' = an
             /\ pc' = "render"
             /\ UNCHANGED << idx, results, code_content, source_code, prompt, timestamp,
                             out_dirs >>
  /\ UNCHANGED << env, now, exit_code, py_files, artifacts, gateway_log, summary >>

\* process_code_file [3/6], [4/6]: build the prompt, make the output
\* directory, save the analysis.
RenderPrompt ==
  /\ pc = "render"
  /\ LET code_path == py_files[idx]
         basename == path_stem(code_path)
     IN /\ prompt' = create_test_generation_prompt(code_path, code_content, analysis,
                        load_agent_instructions(args.agent), load_skill_rubric(args.skill))
        /\ out_dirs' = out_dirs \cup {args.output}
        /\ \E t \in ClockReadings : now' = t /\ timestamp' = t
        /\ artifacts' = save_analysis(artifacts, analysis_file(args.output, basename),
                                      basename, code_path, analysis)
  /\ pc' = "generate"
  /\ UNCHANGED << env, exit_code, py_files, idx, results, code_content, source_code,
                  analysis, gateway_log, summary >>

\* One call of generate_tests_with_ai.
LogCall(answer) ==
  Append(gateway_log, [file |-> idx, prompt |-> prompt, api_key |-> api_key,
                       answer |-> answer])

\* process_code_file [5/6], [6/6] with a credential.
GenerateTests ==
  /\ pc = "generate"
  /\ truthy(api_key)
  /\ LET code_path == py_files[idx]
         basename == path_stem(code_path)
     IN \/ \E generated_tests \in GatewayTexts, t \in ClockReadings :
             LET tfile == test_file(args.output, basename, timestamp)
             IN /\ gateway_log' = LogCall([ok |-> TRUE, text |-> generated_tests])
                /\ now' = t
                /\ artifacts' = write_file(artifacts, tfile,
                                  tests_text(basename, t, code_path, generated_tests))
                /\ Return(completed_result(code_path, tfile,
                            analysis_file(args.output, basename), analysis))
        \/ \E e \in GatewayErrors :
             /\ gateway_log' = LogCall([ok |-> FALSE, text |-> e])
             /\ Return(error_result(str_exception(e)))
             /\ UNCHANGED << now, artifacts >>
  /\ UNCHANGED << env, exit_code, py_files, out_dirs, summary >>

\* process_code_file [5/6], [6/6] without a credential.
SavePrompt ==
  /\ pc = "generate"
  /\ ~truthy(api_key)
  /\ LET code_path == py_files[idx]
         basename == path_stem(code_path)
         pfile == prompt_file(args.output, basename)
     IN /\ artifacts' = write_file(artifacts, pfile, prompt)
        /\ Return(prompt_only_result(code_path, pfile, analysis_file(args.output, basename)))
  /\ UNCHANGED << env, now, exit_code, py_files, out_dirs, gateway_log, summary >>

\* main's output directory for evaluate_test_file.
eval_output_dir == IF args.output # DefaultOutput THEN args.output ELSE EvalOutput

\* evaluate_test_file [1/5], [2/5]: both reads are outside any try.
EvalRead ==
  /\ pc = "eval_read"
  /\ LET test_path == py_files[idx]
         source_path == args.source
         reads_source == source_path # NoPath /\ path_exists(source_path)
     IN IF \/ ~disk[test_path].readable
           \/ reads_source /\ ~disk[source_path].readable
        THEN Exit(1) /\ UNCHANGED << code_content, source_code >>
        ELSE /\ code_content' = disk[test_path].content
             /\ source_code' = IF reads_source THEN disk[source_path].content ELSE None
             /\ pc' = "eval_render"
             /\ exit_code' = exit_code
  /\ UNCHANGED << env, now, py_files, idx, results, analysis, prompt, timestamp,
                  out_dirs, artifacts, gateway_log, summary >>

\* evaluate_test_file [3/5], [4/5]
EvalRender ==
  /\ pc = "eval_render"
  /\ prompt' = create_test_evaluation_prompt(code_content, source_code,
                  load_agent_instructions(args.agent), load_skill_rubric(args.skill))
  /\ out_dirs' = out_dirs \cup {eval_output_dir}
  /\ \E t \in ClockReadings : now' = t /\ timestamp' = t
  /\ pc' = "eval_generate"
  /\ UNCHANGED << env, exit_code, py_files, idx, results, code_content, source_code,
                  analysis, artifacts, gateway_log, summary >>

\* evaluate_test_file [5/5] with a credential.
EvalWithAI ==
  /\ pc = "eval_generate"
  /\ truthy(api_key)
  /\ LET test_path == py_files[idx]
         basename == path_stem(test_path)
     IN \/ \E evaluation \in GatewayTexts, t \in ClockReadings :
             LET efile == eval_file(eval_output_dir, basename, timestamp)
             IN /\ gateway_log' = LogCall([ok |-> TRUE, text |-> evaluation])
                /\ now' = t
                /\ artifacts' = write_file(artifacts, efile,
                                  evaluation_text(basename, t, test_path, args.source,
                                                  evaluation))
                /\ Return(eval_completed_result(test_path, efile))
        \/ \E e \in GatewayErrors :
             /\ gateway_log' = LogCall([ok |-> FALSE, text |-> e])
             /\ Return(error_result(str_exception(e)))
             /\ UNCHANGED << now, artifacts >>
  /\ UNCHANGED << env, exit_code, py_files, out_dirs, summary >>

\* evaluate_test_file [5/5] without a credential.
EvalSavePrompt ==
  /\ pc = "eval_generate"
  /\ ~truthy(api_key)
  /\ LET test_path == py_files[idx]
         pfile == eval_prompt_file(eval_output_dir, path_stem(test_path))
     IN /\ artifacts' = write_file(artifacts, pfile, prompt)
        /\ Return(eval_prompt_only_result(test_path, pfile))
  /\ UNCHANGED << env, now, exit_code, py_files, out_dirs, gateway_log, summary >>

\* main: print_summary, "Done!", normal end of the process.
PrintSummary ==
  /\ pc = "summary"
  /\ summary' = print_summary(results, IF Mode = "evaluate" THEN "evaluate" ELSE "generate")
  /\ Exit(0)
  /\ UNCHANGED << env, now, py_files, idx, results, locals, out_dirs, artifacts,
                  gateway_log >>

Next ==
  \/ MainCheckLibrary
  \/ MainEvaluate
  \/ MainFile
  \/ MainDir
  \/ ReadCodeFile
  \/ AnalyzeCode
  \/ RenderPrompt
  \/ GenerateTests
  \/ SavePrompt
  \/ EvalRead
  \/ EvalRender
  \/ EvalWithAI
  \/ EvalSavePrompt
  \/ PrintSummary

Spec == Init /\ [][Next]_vars

\* ------------------------------------------------------------- vocabulary
\* A credential is configured: the key is neither None nor empty.
Credential == api_key \notin {None, ""}
Readable(p) == disk[p].readable
Parsable(p) == disk[p].readable /\ disk[p].content # "bad"
AllReadable == \A i \in DOMAIN py_files : Readable(py_files[i])

\* Gateway calls made for the file at index i of the run.
CallsFor(i) == {j \in DOMAIN gateway_log : gateway_log[j].file = i}
FailedCalls == {j \in DOMAIN gateway_log : ~gateway_log[j].answer.ok}

\* The input file an artifact was written for.
SubjectOf(content) ==
  CASE content.kind \in {"Code Analysis", "TEST GENERATION GUIDELINES"} -> content.file
    [] content.kind = "Generated Tests" -> content.source
    [] content.kind = "Test Suite Evaluation" -> content.test
    [] OTHER -> NoPath
\* The kinds of the artifacts on disk for input file p.
ArtifactsOf(p) == {q \in DOMAIN artifacts : SubjectOf(artifacts[q]) = p}
KindsOf(p) == {artifacts[q].kind : q \in ArtifactsOf(p)}

\* What one file's result and artifacts are, from the file's own text, the
\* credential and the service's answer to that file alone.
ExpectedStatus(i) ==
  IF ~Parsable(py_files[i]) THEN "error"
  ELSE IF ~Credential THEN "prompt_only"
  ELSE IF \E j \in CallsFor(i) : gateway_log[j].answer.ok THEN "completed"
  ELSE "error"
ExpectedKinds(i) ==
  IF ~Parsable(py_files[i]) THEN {}
  ELSE IF ~Credential THEN {"Code Analysis", "TEST GENERATION GUIDELINES"}
  ELSE IF \E j \in CallsFor(i) : gateway_log[j].answer.ok
       THEN {"Code Analysis", "Generated Tests"}
  ELSE {"Code Analysis"}

\* ------------------------------------------------------------------ claims
\* C1: in a directory batch whose files are all readable, the results are
\* one per matching file, in sorted file order; an unparsable file's entry
\* has status 'error', and every entry has exactly the status and the
\* artifacts that its own file, the credential and the service's answer for
\* it determine, whatever the other files of the batch are.
C1_BatchIsolatesUnparsable ==
  (Mode = "dir" /\ AllReadable) =>
    /\ Len(py_files) = Cardinality(glob_py(args.dir)) \/ py_files = << >>
    /\ \A i, j \in DOMAIN py_files : i < j => py_files[i].stem < py_files[j].stem
    /\ Len(results) <= Len(py_files)
    /\ (pc = "exited" /\ py_files # << >>) => Len(results) = Len(py_files)
    /\ \A i \in DOMAIN results :
         /\ results[i].status = ExpectedStatus(i)
         /\ ~Parsable(py_files[i]) => results[i].status = "error"
         /\ results[i].status # "error" => results[i].code_path = py_files[i]
         /\ KindsOf(py_files[i]) = ExpectedKinds(i)
         /\ Cardinality(ArtifactsOf(py_files[i])) = Cardinality(ExpectedKinds(i))

\* C1 witness: a finished batch of at least two files, an unparsable one
\* followed by one that was processed normally.
C1_Witness ==
  /\ Mode = "dir" /\ AllReadable /\ pc = "exited"
  /\ Len(py_files) >= 2 /\ Len(results) = Len(py_files)
  /\ \E k, j \in DOMAIN results :
       /\ k < j
       /\ ~Parsable(py_files[k]) /\ results[k].status = "error"
       /\ results[j].status \in {"completed", "prompt_only"}

\* C2: a file that cannot be read ends as a Failed result with reason "io",
\* and the run still produces one result for every file.
C2_ReadFailureIsFailedResult ==
  (Mode # "evaluate" /\ pc = "exited" /\ py_files # << >>) =>
    /\ Len(results) = Len(py_files)
    /\ \A i \in DOMAIN results :
         ~Readable(py_files[i]) =>
           results[i].status = "error" /\ results[i].error = << "io" >>

\* C3 as stated: without a credential every result of the generate
\* workflow has status 'prompt_only'.
C3_AllPromptOnly ==
  (Mode # "evaluate" /\ ~Credential) =>
    \A i \in DOMAIN results : results[i].status = "prompt_only"

\* C3 amended: without a credential every result for a parsable file has
\* status 'prompt_only' and an unparsable file's result has status 'error';
\* for each prompt_only result the file at the reported prompt_file path
\* holds exactly the text create_test_generation_prompt returns for that
\* file.
C3_PromptOnlyUnlessUnparsable ==
  (Mode # "evaluate" /\ ~Credential) =>
    \A i \in DOMAIN results :
      LET code_path == py_files[i] IN
      /\ Parsable(code_path) <=> results[i].status = "prompt_only"
      /\ ~Parsable(code_path) <=> results[i].status = "error"
      /\ results[i].status = "prompt_only" =>
           /\ results[i].code_path = code_path
           /\ results[i].prompt_file \in DOMAIN artifacts
           /\ artifacts[results[i].prompt_file] =
                create_test_generation_prompt(code_path, disk[code_path].content,
                  analyze_code_file(code_path),
                  load_agent_instructions(args.agent), load_skill_rubric(args.skill))

\* C3 witness: a batch without credential that has produced two saved
\* prompts.
C3_Witness ==
  /\ Mode = "dir" /\ ~Credential
  /\ \E i, j \in DOMAIN results :
       i < j /\ results[i].status = "prompt_only" /\ results[j].status = "prompt_only"

\* C4: the gateway is called at most once per file and never for a file
\* index outside the run; a file whose workflow has returned was sent to the
\* gateway exactly once if a credential is configured and the file reached
\* the Render step (it parsed, or the run evaluates a test file), and not
\* at all otherwise; a failed call is not followed by another call.
C4_GatewayOncePerFile ==
  /\ \A j \in DOMAIN gateway_log : gateway_log[j].file \in DOMAIN py_files
  /\ \A i \in DOMAIN py_files :
       /\ Cardinality(CallsFor(i)) <= 1
       /\ CallsFor(i) # {} =>
            Credential /\ (Mode = "evaluate" \/ Parsable(py_files[i]))
       /\ i \in DOMAIN results =>
            Cardinality(CallsFor(i)) =
              IF Credential /\ (Mode = "evaluate" \/ Parsable(py_files[i]))
              THEN 1 ELSE 0

\* C4 witness: a finished run in which a gateway call failed.
C4_Witness ==
  /\ pc = "exited" /\ exit_code = << 0 >>
  /\ \E j \in FailedCalls : gateway_log[j].file \in DOMAIN results

C6_UnparsableFiles ==
  Mode # "evaluate" =>
    /\ \A i \in DOMAIN results :
         ~Parsable(py_files[i]) =>
           /\ results[i].status = "error"
           /\ results[i].error = << "Syntax error: ", SyntaxErrorText >>
           /\ CallsFor(i) = {}
           /\ ArtifactsOf(py_files[i]) = {}
    /\ (\A i \in 1 .. idx : ~Parsable(py_files[i])) =>
         (out_dirs = {} /\ DOMAIN artifacts = {} /\ gateway_log = << >>)
\* The step that analyzes an unparsable file.
C6_UnparsableStep ==
  (pc = "analyze" /\ ~Parsable(py_files[idx])) =>
    /\ prompt = NoPrompt /\ prompt' = NoPrompt
    /\ Len(results') = Len(results) + 1
    /\ UNCHANGED << out_dirs, artifacts, gateway_log >>

\* C6: the result of an unparsable file is Failed with the parse message;
\* no gateway call was made and no artifact was written for it, and while
\* only unparsable files have been processed no output directory exists;
\* the step that analyzes an unparsable file changes neither the artifacts,
\* nor the directories, nor the gateway log, and leaves no prompt built.
C6_UnparsableLeavesNoTrace == []C6_UnparsableFiles /\ [][C6_UnparsableStep]_vars

\* C6 witness: an unparsable file has been processed and nothing is on disk.
C6_Witness ==
  /\ Mode # "evaluate"
  /\ \E i \in DOMAIN results : ~Parsable(py_files[i]) /\ results[i].status = "error"
  /\ out_dirs = {} /\ DOMAIN artifacts = {}

\* The analysis summary of input file p is on disk.
HasAnalysisArtifact(p) ==
  \E q \in DOMAIN artifacts :
    artifacts[q].kind = "Code Analysis" /\ artifacts[q].file = p

\* C7: whenever the gateway is about to be called or has been called for a
\* file in process_code_file, that file's analysis summary is on disk;
\* every Completed result names an analysis file and a generated-test file
\* that exist, the latter holding the header (subject, source path) and
\* then the text the gateway returned for that file, unmodified.
C7_AnalysisBeforeGateway ==
  Mode # "evaluate" =>
    /\ pc = "generate" => HasAnalysisArtifact(py_files[idx])
    /\ \A j \in DOMAIN gateway_log : HasAnalysisArtifact(py_files[gateway_log[j].file])
    /\ \A i \in DOMAIN results :
         results[i].status = "completed" =>
           LET r == results[i] IN
           /\ {"analysis_file", "test_file"} \subseteq DOMAIN r
           /\ r.analysis_file \in DOMAIN artifacts
           /\ artifacts[r.analysis_file].kind = "Code Analysis"
           /\ artifacts[r.analysis_file].file = py_files[i]
           /\ r.test_file \in DOMAIN artifacts
           /\ artifacts[r.test_file].kind = "Generated Tests"
           /\ artifacts[r.test_file].basename = ToString(py_files[i].stem)
           /\ artifacts[r.test_file].source = py_files[i]
           /\ \E j \in CallsFor(i) :
                /\ gateway_log[j].answer.ok
                /\ artifacts[r.test_file].body = gateway_log[j].answer.text

\* C7 witness: a Completed result exists.
C7_Witness ==
  /\ Mode # "evaluate"
  /\ \E i \in DOMAIN results : results[i].status = "completed"

\* C8: every result carries the path of its input file, and every failure
\* listed by print_summary shows the file name next to the error text.
C8_ResultsCarryInputPath ==
  /\ \A i \in DOMAIN results :
       {"code_path", "test_path"} \cap DOMAIN results[i] # {}
  /\ summary.printed =>
       \A k \in DOMAIN summary.errors : "name" \in DOMAIN summary.errors[k]

\* The k-th result of a status, and what its summary line points to.
IndicesOf(status) == {i \in DOMAIN results : results[i].status = status}
KthIndexOf(status, k) ==
  CHOOSE i \in IndicesOf(status) :
    Cardinality({j \in IndicesOf(status) : j <= i}) = k
LineTarget(r) ==
  CASE r.status = "error" -> r.error
    [] r.status = "prompt_only" -> r.prompt_file
    [] "test_file" \in DOMAIN r -> r.test_file
    [] OTHER -> r.evaluation_file

\* C9: the summary counts add up to the number of results, every result has
\* one of the three statuses, each bucket has as many lines as there are
\* results of its status, and the k-th line of a bucket is that of the k-th
\* result of that status in the input list.
C9_SummaryPartitions ==
  summary.printed =>
    /\ summary.total = Len(results)
    /\ summary.n_completed + summary.n_prompt_only + summary.n_errors = summary.total
    /\ \A i \in DOMAIN results : results[i].status \in {"completed", "prompt_only", "error"}
    /\ summary.n_completed = Cardinality(IndicesOf("completed"))
    /\ summary.n_prompt_only = Cardinality(IndicesOf("prompt_only"))
    /\ summary.n_errors = Cardinality(IndicesOf("error"))
    /\ Len(summary.completed) = summary.n_completed
    /\ Len(summary.prompt_only) = summary.n_prompt_only
    /\ Len(summary.errors) = summary.n_errors
    /\ \A k \in DOMAIN summary.completed :
         summary.completed[k].target = LineTarget(results[KthIndexOf("completed", k)])
    /\ \A k \in DOMAIN summary.prompt_only :
         summary.prompt_only[k].target = LineTarget(results[KthIndexOf("prompt_only", k)])
    /\ \A k \in DOMAIN summary.errors :
         summary.errors[k].target = LineTarget(results[KthIndexOf("error", k)])

\* C9 witness: a printed summary of a batch with two distinct results in
\* one bucket.
C9_Witness ==
  /\ summary.printed
  /\ \E s \in {"completed", "prompt_only", "error"} :
       \E i, j \in IndicesOf(s) : i < j /\ results[i] # results[j]

\* The path the selected mode works on does not exist.
SelectedInputMissing ==
  CASE Mode = "evaluate" -> ~path_exists(args.evaluate)
    [] Mode = "file" -> ~path_exists(args.file)
    [] OTHER -> ~dir_exists(args.dir)

\* C10: the process ends with a nonzero status exactly when the input path
\* of the selected mode does not exist or a credential is supplied while
\* the client library is unavailable.
C10_ExitStatus ==
  pc = "exited" =>
    (exit_code # << 0 >> <=> (SelectedInputMissing \/ (Credential /\ ~HAS_ANTHROPIC)))

\* ======================================================= analyze_code_file
\* analyze_code_file on its own, over every source with at most MaxNodes
\* declarations and over the named texts.

\* The pipeline while another component is exercised.
PipelineIdle ==
  /\ args = Args(NoPath, NoPath, NoPath)
  /\ api_key = None
  /\ HAS_ANTHROPIC = FALSE
  /\ disk = << >>
  /\ input_dirs = {}
  /\ now = 0
  /\ pc = "idle"
  /\ exit_code = << >>
  /\ py_files = << >>
  /\ idx = 0
  /\ results = << >>
  /\ code_content = None
  /\ source_code = None
  /\ analysis = NoAnalysis
  /\ prompt = NoPrompt
  /\ timestamp = 0
  /\ out_dirs = {}
  /\ artifacts = << >>
  /\ gateway_log = << >>
  /\ summary = NoSummary

\* Declarations a source can hold.
FunctionNames == {"visible", "_private"}
ClassNames == {"Public", "_Hidden"}
Labels ==
  {[type |-> "FunctionDef", name |-> n] : n \in FunctionNames} \cup
  {[type |-> "ClassDef", name |-> n] : n \in ClassNames}

\* The nestings of exactly n declarations, in source order.
RECURSIVE Shapes(_)
Shapes(n) ==
  IF n = 0 THEN { << >> }
  ELSE UNION { { << [label |-> l, body |-> b] >> \o rest :
                   l \in Labels, b \in Shapes(k - 1), rest \in Shapes(n - k) } :
               k \in 1 .. n }

RECURSIVE ShapeSize(_)
ShapeSize(shape) ==
  IF shape = << >> THEN 0
  ELSE 1 + ShapeSize(Head(shape).body) + ShapeSize(Tail(shape))

\* ast.parse of a nesting: each declaration is on a line of its own, lines
\* numbered from first in source order.
RECURSIVE ParseShape(_, _)
ParseShape(shape, first) ==
  IF shape = << >> THEN << >>
  ELSE LET h == Head(shape)
           body == ParseShape(h.body, first + 1)
       IN << IF h.label.type = "FunctionDef"
             THEN FunctionDef(h.label.name, first, << >>, body)
             ELSE ClassDef(h.label.name, first, body) >>
          \o ParseShape(Tail(shape), first + 1 + ShapeSize(h.body))

\* The text of a nesting: one line per declaration, '\n' between the lines
\* and, if trailing, after the last one.
RECURSIVE ShapeLines(_)
ShapeLines(shape) ==
  IF shape = << >> THEN << >>
  ELSE LET h == Head(shape)
       IN << << IF h.label.type = "FunctionDef" THEN "def" ELSE "class", h.label.name >> >>
          \o ShapeLines(h.body) \o ShapeLines(Tail(shape))
RECURSIVE JoinLines(_)
JoinLines(lines) ==
  IF lines = << >> THEN << >>
  ELSE IF Len(lines) = 1 THEN lines
  ELSE << Head(lines), NL >> \o JoinLines(Tail(lines))
ShapeText(shape, trailing) ==
  JoinLines(ShapeLines(shape)) \o (IF trailing THEN << NL >> ELSE << >>)

Sources ==
  { [parses |-> TRUE, tree |-> ParseShape(shape, 1), text |-> ShapeText(shape, trailing)] :
      shape \in UNION { Shapes(n) : n \in 0 .. MaxNodes }, trailing \in BOOLEAN }
  \cup { NamedSource(code) : code \in SourceTexts }

AnalyzedPath == CodePath("src", 1)

InitAnalyze ==
  /\ PipelineIdle
  /\ CartIdle
  /\ UsersIdle
  /\ an_source \in Sources
  /\ an_result = NoAnalysis
  /\ an_pc = "start"

\* One call of analyze_code_file.
AnalyzeFile ==
  /\ an_pc = "start"
  /\ an_result' = analyze_source(AnalyzedPath, an_source)
  /\ an_pc' = "done"
  /\ UNCHANGED << pipeline_vars, an_source, cart_vars, user_vars >>

NextAnalyze == AnalyzeFile

SpecAnalyze == InitAnalyze /\ [][NextAnalyze]_vars

\* The declarations of a tree in source order (depth first).
RECURSIVE InSourceOrder(_)
InSourceOrder(tree) ==
  IF tree = << >> THEN << >>
  ELSE << Head(tree) >> \o InSourceOrder(Head(tree).body) \o InSourceOrder(Tail(tree))
Declared(type) ==
  SelectSeq(InSourceOrder(an_source.tree), LAMBDA node : node.type = type)
\* The names of the model that start with the private-name marker '_'.
PrivateNames == {"_private", "_Hidden", "_helper", "__init__"}
Analyzed == an_pc = "done" /\ an_result.testable

\* C11: the analysis of a parsable source has
\* complexity = len(functions) + 2 * len(classes).
C11_ComplexityFormula ==
  Analyzed =>
    an_result.complexity = Len(an_result.functions) + 2 * Len(an_result.classes)

\* C11 witness: an analysis with functions and classes.
C11_Witness ==
  Analyzed /\ Len(an_result.functions) >= 1 /\ Len(an_result.classes) >= 1

\* C12 as stated: no declaration with a private name, function, method or
\* class, is listed in functions or in classes.
C12_NoPrivateDeclarationListed ==
  Analyzed =>
    /\ \A i \in DOMAIN an_result.functions : an_result.functions[i].name \notin PrivateNames
    /\ \A i \in DOMAIN an_result.classes : an_result.classes[i].name \notin PrivateNames

\* C12 amended: no function or method declaration with a private name is
\* listed in functions or in the methods of a class, and every public
\* function declaration is listed; a class is listed whatever its name.
C12_NoPrivateFunctionListed ==
  Analyzed =>
    /\ \A i \in DOMAIN an_result.functions : an_result.functions[i].name \notin PrivateNames
    /\ \A i \in DOMAIN an_result.classes :
         \A k \in DOMAIN an_result.classes[i].methods :
           an_result.classes[i].methods[k] \notin PrivateNames
    /\ Len(an_result.functions) =
         Len(SelectSeq(Declared("FunctionDef"), LAMBDA node : node.name \notin PrivateNames))
    /\ Len(an_result.classes) = Len(Declared("ClassDef"))

\* C12 witness: the analysis of a source that declares a private function
\* and a private class.
C12_Witness ==
  /\ Analyzed
  /\ \E i \in DOMAIN Declared("FunctionDef") : Declared("FunctionDef")[i].name \in PrivateNames
  /\ \E i \in DOMAIN an_result.classes : an_result.classes[i].name \in PrivateNames

\* C13: functions and classes are listed in source order: of two entries of
\* a list, the one declared on the earlier line comes first.
C13_ListsInSourceOrder ==
  Analyzed =>
    /\ \A i, j \in DOMAIN an_result.functions :
         i < j => an_result.functions[i].line < an_result.functions[j].line
    /\ \A i, j \in DOMAIN an_result.classes :
         i < j => an_result.classes[i].line < an_result.classes[j].line

\* The text "def add(a, b):\n    return a + b\n".
AddText == << << "def add(a, b):" >>, NL, << "    return a + b" >>, NL >>
AddFunctions == << [name |-> "add", line |-> 1, args |-> << "a", "b" >>] >>

\* C14 as stated: the text "def add(a, b):\n    return a + b\n" is analyzed
\* to functions = [add(a, b)], classes = [], complexity 1 and line count 2.
C14_AddExampleTwoLines ==
  (an_pc = "done" /\ an_source.text = AddText) =>
    /\ an_result.testable
    /\ an_result.functions = AddFunctions
    /\ an_result.classes = << >>
    /\ an_result.complexity = 1
    /\ an_result.lines = 2

\* C14 amended: the text "def add(a, b):\n    return a + b\n" is analyzed to
\* functions = [add(a, b)], classes = [], complexity 1 and line count 3
\* (its two line separators plus one).
C14_AddExampleThreeLines ==
  (an_pc = "done" /\ an_source.text = AddText) =>
    /\ an_result.testable
    /\ an_result.functions = AddFunctions
    /\ an_result.classes = << >>
    /\ an_result.complexity = 1
    /\ an_result.lines = 3

\* C14 witness: that text has been analyzed.
C14_Witness ==
  an_pc = "done" /\ an_source.text = AddText /\ an_result.testable

\* The public functions declared directly in a body, in body order.
DirectPublicMethods(body) ==
  LET kept == SelectSeq(body, LAMBDA item :
                item.type = "FunctionDef" /\ item.name \notin PrivateNames)
  IN [k \in 1 .. Len(kept) |-> kept[k].name]
\* The class declared on a line.
ClassAtLine(line) ==
  CHOOSE node \in {Declared("ClassDef")[i] : i \in DOMAIN Declared("ClassDef")} :
    node.lineno = line

\* C15: every class declaration has an entry in classes whatever its name,
\* each entry is that of a declared class, and its methods are the names of
\* the public functions declared directly in the class body, in body order.
C15_ClassesAndDirectMethods ==
  Analyzed =>
    /\ Len(an_result.classes) = Len(Declared("ClassDef"))
    /\ \A i \in DOMAIN Declared("ClassDef") :
         \E k \in DOMAIN an_result.classes :
           /\ an_result.classes[k].line = Declared("ClassDef")[i].lineno
           /\ an_result.classes[k].name = Declared("ClassDef")[i].name
    /\ \A k \in DOMAIN an_result.classes :
         /\ \E i \in DOMAIN Declared("ClassDef") :
              Declared("ClassDef")[i].lineno = an_result.classes[k].line
         /\ an_result.classes[k].methods =
              DirectPublicMethods(ClassAtLine(an_result.classes[k].line).body)

\* C15 witness: class _Hidden with methods visible and _private is analyzed
\* to the entry _Hidden with methods [visible].
C15_Witness ==
  /\ Analyzed
  /\ an_source.tree =
       << ClassDef("_Hidden", 1, << FunctionDef("visible", 2, << >>, << >>),
                                    FunctionDef("_private", 3, << >>, << >>) >>) >>
  /\ an_result.classes = << [name |-> "_Hidden", line |-> 1, methods |-> << "visible" >>] >>

\* The number of method names listed in the entries of classes.
RECURSIVE count_methods(_)
count_methods(classes) ==
  IF classes = << >> THEN 0
  ELSE Len(Head(classes).methods) + count_methods(Tail(classes))

\* C21: every method listed in a class entry is also an entry of functions
\* (same name, the line of the method's declaration), so complexity counts
\* each listed method once on top of the 2 of its class.
C21_MethodsAlsoFunctions ==
  Analyzed =>
    /\ \A k \in DOMAIN an_result.classes :
         LET body == ClassAtLine(an_result.classes[k].line).body
         IN /\ \A m \in DOMAIN an_result.classes[k].methods :
                 \E i \in DOMAIN an_result.functions :
                   an_result.functions[i].name = an_result.classes[k].methods[m]
            /\ \A b \in DOMAIN body :
                 body[b].type = "FunctionDef" /\ body[b].name \notin PrivateNames =>
                   \E i \in DOMAIN an_result.functions :
                     /\ an_result.functions[i].name = body[b].name
                     /\ an_result.functions[i].line = body[b].lineno
    /\ Len(an_result.functions) >= count_methods(an_result.classes)
    /\ an_result.complexity >=
         2 * Len(an_result.classes) + count_methods(an_result.classes)

\* C21 witness: a class with one public method and no other function is
\* analyzed to one class entry, one function entry and complexity 3.
C21_Witness ==
  /\ Analyzed
  /\ Len(an_result.classes) = 1
  /\ an_result.classes[1].methods = << "visible" >>
  /\ Len(Declared("FunctionDef")) = 1
  /\ an_result.functions[1].name = "visible"
  /\ an_result.functions[1].line = an_result.classes[1].line + 1
  /\ an_result.complexity = 3

\* ------------------------------------------------------- evaluate_test_file
\* The run evaluates a test file and no source file is there to read.
SourceMissing == args.source = NoPath \/ ~path_exists(args.source)
\* The evaluation prompts of the run: the one being built, those sent to
\* the gateway and those saved.
EvaluationPrompts ==
  (IF pc = "eval_generate" THEN {prompt} ELSE {})
  \cup {gateway_log[j].prompt : j \in DOMAIN gateway_log}
  \cup {artifacts[q] : q \in {x \in DOMAIN artifacts :
                                artifacts[x].kind = "TEST EVALUATION RUBRIC"}}

\* C16 as stated: in Evaluate mode a missing or unspecified source file
\* leaves the result PromptOnly or Completed, and the prompt has the source
\* section, with the text verbatim, exactly when a source text was supplied
\* and read.
C16_SourceSectionIffRead ==
  Mode = "evaluate" =>
    /\ SourceMissing =>
         \A i \in DOMAIN results : results[i].status \in {"prompt_only", "completed"}
    /\ \A p \in EvaluationPrompts :
         IF ~SourceMissing
         THEN p.source_section =
                << "### Source Code Being Tested:", disk[args.source].content >>
         ELSE p.source_section = << >>

\* C16 amended: in Evaluate mode a missing or unspecified source file is
\* never an error: the result is PromptOnly without a credential, Completed
\* when the gateway answered, and Failed only with the gateway's error; the
\* prompt has the source section, with the text verbatim, exactly when a
\* non-empty source text was supplied and read.
C16_SourceSectionIffNonEmpty ==
  Mode = "evaluate" =>
    /\ SourceMissing =>
         \A i \in DOMAIN results :
           /\ ~Credential => results[i].status = "prompt_only"
           /\ Credential =>
                \E j \in CallsFor(i) :
                  IF gateway_log[j].answer.ok
                  THEN results[i].status = "completed"
                  ELSE /\ results[i].status = "error"
                       /\ results[i].error = << gateway_log[j].answer.text >>
    /\ \A p \in EvaluationPrompts :
         IF ~SourceMissing /\ disk[args.source].content # ""
         THEN p.source_section =
                << "### Source Code Being Tested:", disk[args.source].content >>
         ELSE p.source_section = << >>

\* C16 witness: an evaluation without source file has completed, its
\* prompt without source section.
C16_Witness ==
  /\ Mode = "evaluate" /\ SourceMissing
  /\ Len(results) = 1 /\ results[1].status = "completed"
  /\ \A j \in DOMAIN gateway_log : gateway_log[j].prompt.source_section = << >>

\* ------------------------------------------------------------ ShoppingCart
\* Money is counted in cents; Decimal arithmetic on these values is exact.
MaxCalls == 4
MaxQuantity == 3

\* The products the caller passes in: id, price, stock, max_quantity
\* (max_quantity defaults to 10).
Products ==
  { [id |-> 1, price |-> 1999, stock |-> 3, max_quantity |-> 2],
    [id |-> 2, price |-> 2500, stock |-> 2, max_quantity |-> 10] }
ProductIds == {p.id : p \in Products} \cup {3}
Quantities == (0 - MaxQuantity) .. MaxQuantity
Percentages == {0 - 1, 0, 50, 100, 101}
DiscountCodes == {"SAVE"}

\* Decimal('0.08'), in hundredths.
TAX_RATE == 8
FREE_SHIPPING_THRESHOLD == 5000
SHIPPING_COST == 599

\* Decimal.quantize(Decimal('0.01')) of the cent amount num / den, den > 0:
\* rounding half to even.
quantize(num, den) ==
  LET q == num \div den
      r == num % den
  IN IF 2 * r < den THEN q
     ELSE IF 2 * r > den THEN q + 1
     ELSE IF q % 2 = 0 THEN q ELSE q + 1

\* CartItem.__init__: the exception it raises, or None.
CartItemRaises(product, quantity) ==
  IF quantity <= 0 THEN "InvalidQuantityError"
  ELSE IF quantity > product.stock THEN "InvalidQuantityError"
  ELSE IF quantity > product.max_quantity THEN "InvalidQuantityError"
  ELSE None
CartItem(product, quantity) == [product |-> product, quantity |-> quantity]

\* Index of the first item of the cart with this product id, 0 if none.
find_item(product_id) ==
  IF \E i \in DOMAIN items : items[i].product.id = product_id
  THEN CHOOSE i \in DOMAIN items :
         /\ items[i].product.id = product_id
         /\ \A j \in 1 .. (i - 1) : items[j].product.id # product_id
  ELSE 0

RECURSIVE sum_subtotals(_)
sum_subtotals(its) ==
  IF its = << >> THEN 0
  ELSE Head(its).product.price * Head(its).quantity + sum_subtotals(Tail(its))
get_subtotal == sum_subtotals(items)
taxable_amount == get_subtotal - discount_amount
get_tax == quantize(taxable_amount * TAX_RATE, 100)
get_shipping_cost == IF get_subtotal >= FREE_SHIPPING_THRESHOLD THEN 0 ELSE SHIPPING_COST
get_total == get_subtotal - discount_amount + get_tax + get_shipping_cost

\* A call that raised: nothing but the exception is left behind.
CartRaise(e) ==
  /\ cart_raised' = e
  /\ cart_returned' = None
  /\ UNCHANGED << items, discount_code, discount_amount >>
CartReturn(value) ==
  /\ cart_raised' = None
  /\ cart_returned' = value

InCartCall ==
  /\ cart_calls < MaxCalls
  /\ cart_calls' = cart_calls + 1
  /\ UNCHANGED << pipeline_vars, analyzer_vars, user_vars >>

AsAddItemAlwaysAppends(product, quantity) ==
  IF CartItemRaises(product, quantity) # None
  THEN CartRaise(CartItemRaises(product, quantity))
  ELSE /\ items' = Append(items, CartItem(product, quantity))
       /\ CartReturn(None)
       /\ UNCHANGED << discount_code, discount_amount >>
add_item(product, quantity) ==
  LET i == find_item(product.id)
      new_quantity == items[i].quantity + quantity
  IN IF i # 0
     THEN IF new_quantity > product.stock THEN CartRaise("InvalidQuantityError")
          ELSE IF new_quantity > product.max_quantity
               THEN CartRaise("InvalidQuantityError")
          ELSE /\ items' = [items EXCEPT ![i].quantity = new_quantity]
               /\ CartReturn(None)
               /\ UNCHANGED << discount_code, discount_amount >>
     ELSE IF CartItemRaises(product, quantity) # None
          THEN CartRaise(CartItemRaises(product, quantity))
          ELSE /\ items' = Append(items, CartItem(product, quantity))
               /\ CartReturn(None)
               /\ UNCHANGED << discount_code, discount_amount >>

remove_item(product_id) ==
  LET i == find_item(product_id)
  IN IF i # 0
     THEN /\ items' = SubSeq(items, 1, i - 1) \o SubSeq(items, i + 1, Len(items))
          /\ CartReturn("True")
          /\ UNCHANGED << discount_code, discount_amount >>
     ELSE /\ CartReturn("False")
          /\ UNCHANGED << items, discount_code, discount_amount >>

update_quantity(product_id, quantity) ==
  LET i == find_item(product_id)
  IN IF quantity <= 0 THEN CartRaise("InvalidQuantityError")
     ELSE IF i # 0
     THEN IF quantity > items[i].product.stock THEN CartRaise("InvalidQuantityError")
          ELSE IF quantity > items[i].product.max_quantity
               THEN CartRaise("InvalidQuantityError")
          ELSE /\ items' = [items EXCEPT ![i].quantity = quantity]
               /\ CartReturn("True")
               /\ UNCHANGED << discount_code, discount_amount >>
     ELSE /\ CartReturn("False")
          /\ UNCHANGED << items, discount_code, discount_amount >>

apply_discount_code(code, discount_pct) ==
  IF discount_pct < 0 \/ discount_pct > 100 THEN CartRaise("ValueError")
  ELSE IF items = << >>
  THEN /\ CartReturn("False")
       /\ UNCHANGED << items, discount_code, discount_amount >>
  ELSE /\ discount_code' = code
       /\ discount_amount' = quantize(get_subtotal * discount_pct, 100)
       /\ CartReturn("True")
       /\ UNCHANGED items

clear ==
  /\ items' = << >>
  /\ discount_code' = None
  /\ discount_amount' = 0
  /\ CartReturn(None)

AddItem == InCartCall /\ \E product \in Products, quantity \in Quantities :
             add_item(product, quantity)
RemoveItem == InCartCall /\ \E product_id \in ProductIds : remove_item(product_id)
UpdateQuantity == InCartCall /\ \E product_id \in ProductIds, quantity \in Quantities :
                    update_quantity(product_id, quantity)
ApplyDiscountCode == InCartCall /\ \E code \in DiscountCodes, pct \in Percentages :
                       apply_discount_code(code, pct)
Clear == InCartCall /\ clear

InitCart == PipelineIdle /\ AnalyzerIdle /\ CartIdle /\ UsersIdle
NextCart == AddItem \/ RemoveItem \/ UpdateQuantity \/ ApplyDiscountCode \/ Clear
SpecCart == InitCart /\ [][NextCart]_vars

\* The quantity a cart item may have.
ValidQuantity(item) ==
  /\ 1 <= item.quantity
  /\ item.quantity <= item.product.stock
  /\ item.quantity <= item.product.max_quantity

\* C17: every item of the cart has 1 <= quantity <= min(stock, max_quantity),
\* and a call that raised InvalidQuantityError left the cart as it was.
C17_QuantitiesValid ==
  /\ [](\A i \in DOMAIN items : ValidQuantity(items[i]))
  /\ [][cart_raised' = "InvalidQuantityError" /\ cart_calls' # cart_calls
          => UNCHANGED << items, discount_code, discount_amount >>]_vars

\* C20: the stored discount never exceeds the subtotal, so the taxable
\* amount, the tax and the total are never negative (stated of the carts
\* whose quantities are all valid).
C20_DiscountWithinSubtotal ==
  (\A i \in DOMAIN items : ValidQuantity(items[i])) =>
  /\ discount_amount <= get_subtotal
  /\ taxable_amount >= 0
  /\ get_tax >= 0
  /\ get_total >= 0

\* No two items of the cart are of the same product id.
OneItemPerProduct ==
  \A i, j \in DOMAIN items : items[i].product.id = items[j].product.id => i = j
\* add_item of a product in the cart appends nothing and, unless it raises,
\* adds the quantity to that of the product's item.
AddUpdatesExisting(product, quantity) ==
  LET i == find_item(product.id)
  IN add_item(product, quantity) /\ i # 0 =>
       /\ Len(items') = Len(items)
       /\ \A j \in DOMAIN items : items'[j].product = items[j].product
       /\ cart_raised' = None =>
            items'[i].quantity = items[i].quantity + quantity
\* remove_item of a product id in the cart leaves no item of that id.
RemoveRemovesProduct(product_id) ==
  remove_item(product_id) /\ find_item(product_id) # 0 =>
    /\ Len(items') = Len(items) - 1
    /\ \A j \in DOMAIN items' : items'[j].product.id # product_id

\* C22: the cart holds at most one item per product id: add_item of a
\* product already in the cart updates its item instead of appending one,
\* and remove_item of a product id in the cart removes the product entirely.
C22_OneItemPerProductId ==
  /\ []OneItemPerProduct
  /\ [][/\ \A product \in Products, quantity \in Quantities :
             AddUpdatesExisting(product, quantity)
        /\ \A product_id \in ProductIds : RemoveRemovesProduct(product_id)]_vars

\* C22 witness: the cart holds both products, one item each, the item of
\* product 1 with a quantity that only a second add_item of product 1
\* leaves (CartItem and update_quantity reject it).
C22_Witness ==
  /\ Len(items) = 2
  /\ OneItemPerProduct
  /\ \E i \in DOMAIN items : items[i].product.id = 1 /\ items[i].quantity <= 0

\* ------------------------------------------------------------- UserService
\* Strings are sequences of characters.
MaxUsers == 2

MIN_PASSWORD_LENGTH == 8
MAX_NAME_LENGTH == 100

AsciiUpper == {"A", "B", "P"}
AsciiLower == {"a", "b", "c", "d", "n", "o", "r", "s", "w", "x"}
AsciiDigits == {"0"}
AsciiLetters == AsciiUpper \cup AsciiLower

\* str.lower()
lower_char(c) ==
  IF c = "A" THEN "a" ELSE IF c = "B" THEN "b" ELSE IF c = "P" THEN "p" ELSE c
lower(str) == [i \in DOMAIN str |-> lower_char(str[i])]

\* str.strip()
RECURSIVE lstrip(_)
lstrip(str) ==
  IF str # << >> /\ Head(str) = " " THEN lstrip(Tail(str)) ELSE str
RECURSIVE rstrip(_)
rstrip(str) ==
  IF str # << >> /\ str[Len(str)] = " " THEN rstrip(SubSeq(str, 1, Len(str) - 1)) ELSE str
strip(str) == rstrip(lstrip(str))

\* The arguments the callers pass.
Emails ==
  { << "a", "@", "x", ".", "c", "o" >>,
    << "A", "@", "x", ".", "c", "o" >>,
    << "b", "@", "x", ".", "c", "o" >>,
    << "a", "@", "x" >>,
    << >> }
Passwords ==
  { << "P", "a", "s", "s", "w", "0", "r", "d" >>,
    << "p", "a", "s", "s", "w", "o", "r", "d" >>,
    << >> }
LongName == [i \in 1 .. (MAX_NAME_LENGTH + 1) |-> "n"]
Names == { << " ", "A", "n", "n", " " >>, << >>, LongName }
UserIds == 1 .. (MaxUsers + 1)
ProfileUpdates ==
  { [name |-> << "B", "o", "b" >>, failed_login_attempts |-> 0],
    [name |-> LongName] }
Timestamp == "<datetime.now>"

\* r'^[a-zA-Z0-9._%+-]+@[a-zA-Z0-9.-]+\.[a-zA-Z]{2,}$'
validate_email(email) ==
  /\ email # << >>
  /\ \E at \in DOMAIN email, dot \in DOMAIN email :
       /\ email[at] = "@" /\ email[dot] = "."
       /\ at >= 2 /\ dot >= at + 2 /\ Len(email) >= dot + 2
       /\ \A i \in 1 .. (at - 1) :
            email[i] \in AsciiLetters \cup AsciiDigits \cup {".", "_", "%", "+", "-"}
       /\ \A i \in (at + 1) .. (dot - 1) :
            email[i] \in AsciiLetters \cup AsciiDigits \cup {".", "-"}
       /\ \A i \in (dot + 1) .. Len(email) : email[i] \in AsciiLetters

validate_password(password) ==
  /\ password # << >>
  /\ Len(password) >= MIN_PASSWORD_LENGTH
  /\ \E i \in DOMAIN password : password[i] \in AsciiUpper
  /\ \E i \in DOMAIN password : password[i] \in AsciiLower
  /\ \E i \in DOMAIN password : password[i] \in AsciiDigits

\* hashlib.sha256(...).hexdigest(): distinct passwords, distinct digests.
hash_password(password) == << "sha256" >> \o password

\* dict.update, and a copy of a dictionary without one key.
dict_update(d, updates) ==
  [k \in DOMAIN d \cup DOMAIN updates |-> IF k \in DOMAIN updates THEN updates[k] ELSE d[k]]
dict_del(d, key) == [k \in DOMAIN d \ {key} |-> d[k]]
\* user.get('failed_login_attempts', 0)
failed_attempts(user) ==
  IF "failed_login_attempts" \in DOMAIN user THEN user.failed_login_attempts ELSE 0

\* Database.get_user_by_email: the id of the first user with this stored
\* email, 0 for None.
get_user_by_email(email) ==
  IF \E id \in DOMAIN users : users[id].email = email
  THEN CHOOSE id \in DOMAIN users :
         /\ users[id].email = email
         /\ \A j \in 1 .. (id - 1) : users[j].email # email
  ELSE 0

\* Database.update_user on a user that exists.
update_user(db, user_id, updates) ==
  [db EXCEPT ![user_id] = dict_update(@, updates)]

SvcRaise(e) ==
  /\ svc_raised' = e
  /\ svc_returned' = ReturnedNone
  /\ UNCHANGED users
SvcReturn(value) ==
  /\ svc_raised' = None
  /\ svc_returned' = value

register_user(email, password, name) ==
  LET user_id == Len(users) + 1
      user_data == [email |-> lower(email),
                    password_hash |-> hash_password(password),
                    name |-> strip(name),
                    created_at |-> Timestamp,
                    is_active |-> TRUE,
                    failed_login_attempts |-> 0,
                    id |-> user_id]
  IN IF ~validate_email(email) THEN SvcRaise("UserValidationError")
     ELSE IF get_user_by_email(email) # 0 THEN SvcRaise("UserValidationError")
     ELSE IF ~validate_password(password) THEN SvcRaise("UserValidationError")
     ELSE IF name = << >> \/ Len(name) > MAX_NAME_LENGTH
          THEN SvcRaise("UserValidationError")
     ELSE /\ users' = Append(users, user_data)
          /\ SvcReturn(ReturnedDict(dict_del(user_data, "password_hash")))

authenticate_user(email, password) ==
  LET id == get_user_by_email(lower(email))
      user == users[id]
      counted == update_user(users, user.id,
                   [failed_login_attempts |-> failed_attempts(user) + 1])
      reset == IF failed_attempts(user) > 0
               THEN update_user(users, user.id, [failed_login_attempts |-> 0])
               ELSE users
      logged_in == update_user(reset, user.id, [last_login |-> Timestamp])
  IN IF email = << >> \/ password = << >>
     THEN SvcReturn(ReturnedNone) /\ UNCHANGED users
     ELSE IF id = 0
     THEN SvcReturn(ReturnedNone) /\ UNCHANGED users
     ELSE IF failed_attempts(user) >= 5
     THEN SvcReturn(ReturnedNone) /\ UNCHANGED users
     ELSE IF hash_password(password) # user.password_hash
     THEN /\ users' = counted
          /\ SvcReturn(ReturnedNone)
     ELSE /\ users' = logged_in
          /\ SvcReturn(ReturnedDict(dict_del(logged_in[user.id], "password_hash")))

sensitive_fields == {"password_hash", "id", "created_at", "failed_login_attempts"}

AsUpdateProfileUnfiltered(user_id, updates) ==
  IF user_id \notin DOMAIN users
  THEN SvcReturn(ReturnedBool(FALSE)) /\ UNCHANGED users
  ELSE IF "name" \in DOMAIN updates /\ Len(updates.name) > MAX_NAME_LENGTH
  THEN SvcRaise("UserValidationError")
  ELSE /\ users' = update_user(users, user_id, updates)
       /\ SvcReturn(ReturnedBool(TRUE))
update_profile(user_id, updates) ==
  LET safe_updates == [k \in DOMAIN updates \ sensitive_fields |-> updates[k]]
  IN IF user_id \notin DOMAIN users
     THEN SvcReturn(ReturnedBool(FALSE)) /\ UNCHANGED users
     ELSE IF "name" \in DOMAIN safe_updates /\ Len(safe_updates.name) > MAX_NAME_LENGTH
     THEN SvcRaise("UserValidationError")
     ELSE /\ users' = update_user(users, user_id, safe_updates)
          /\ SvcReturn(ReturnedBool(TRUE))

deactivate_account(user_id) ==
  IF user_id \notin DOMAIN users
  THEN SvcReturn(ReturnedBool(FALSE)) /\ UNCHANGED users
  ELSE /\ users' = update_user(users, user_id,
                     [is_active |-> FALSE, deactivated_at |-> Timestamp])
       /\ SvcReturn(ReturnedBool(TRUE))

InSvcCall == UNCHANGED << pipeline_vars, analyzer_vars, cart_vars >>

RegisterUser ==
  /\ InSvcCall
  /\ Len(users) < MaxUsers
  /\ \E email \in Emails, password \in Passwords, name \in Names :
       register_user(email, password, name)
AuthenticateUser ==
  InSvcCall /\ \E email \in Emails, password \in Passwords :
                 authenticate_user(email, password)
UpdateProfile ==
  InSvcCall /\ \E user_id \in UserIds, updates \in ProfileUpdates :
                 update_profile(user_id, updates)
DeactivateAccount ==
  InSvcCall /\ \E user_id \in UserIds : deactivate_account(user_id)

InitUsers == PipelineIdle /\ AnalyzerIdle /\ CartIdle /\ UsersIdle
NextUsers == RegisterUser \/ AuthenticateUser \/ UpdateProfile \/ DeactivateAccount
SpecUsers == InitUsers /\ [][NextUsers]_vars

\* C18: no two records of Database.users have the same stored email.
C18_StoredEmailsUnique ==
  \A i, j \in DOMAIN users : users[i].email = users[j].email => i = j

\* The user an authenticate_user call with this email looks up, 0 if none.
LooksUp(email) == get_user_by_email(lower(email))
\* failed_login_attempts is in 0..5 for every user.
AttemptsInRange ==
  \A id \in DOMAIN users : failed_attempts(users[id]) \in 0 .. 5
\* A login with the right password on an account that is not locked
\* resets the counter and returns the user.
SuccessResets(email, password) ==
  LET id == LooksUp(email)
  IN /\ authenticate_user(email, password)
     /\ id # 0 /\ password # << >>
     /\ failed_attempts(users[id]) < 5
     /\ hash_password(password) = users[id].password_hash
     => /\ failed_attempts(users'[id]) = 0
        /\ svc_returned' # ReturnedNone
\* A call for a user whose counter is 5 returns None, whatever the password.
LockedReturnsNone(email, password) ==
  LET id == LooksUp(email)
  IN /\ authenticate_user(email, password)
     /\ id # 0
     /\ failed_attempts(users[id]) >= 5
     => svc_returned' = ReturnedNone
\* No step lowers a counter that has reached 5.
LockedNeverLowered ==
  \A id \in DOMAIN users :
    failed_attempts(users[id]) >= 5 =>
      /\ id \in DOMAIN users'
      /\ failed_attempts(users'[id]) >= failed_attempts(users[id])
\* A call with a password that is not the user's, on an account below 5.
WrongPasswordAttempt(email, password) ==
  LET id == LooksUp(email)
  IN /\ authenticate_user(email, password)
     /\ id # 0
     /\ failed_attempts(users[id]) < 5
     /\ hash_password(password) # users[id].password_hash
WrongPasswordCounted(email, password) ==
  LET id == LooksUp(email)
  IN /\ failed_attempts(users'[id]) = failed_attempts(users[id]) + 1
     /\ svc_returned' = ReturnedNone

\* C19 as stated: failed_login_attempts is always in 0..5; every
\* wrong-password attempt below 5 increases it by one; a successful login
\* resets it to 0; at 5 every authenticate_user call for the user returns
\* None, and no operation lowers it again.
C19_LockAfterFailedLogins ==
  /\ []AttemptsInRange
  /\ [][/\ \A email \in Emails, password \in Passwords :
             /\ WrongPasswordAttempt(email, password)
                  => WrongPasswordCounted(email, password)
             /\ SuccessResets(email, password)
             /\ LockedReturnsNone(email, password)
        /\ LockedNeverLowered]_vars

\* C19 amended: as C19, the attempts that count being those with a
\* non-empty wrong password.
C19_LockAfterNonEmptyWrongPasswords ==
  /\ []AttemptsInRange
  /\ [][/\ \A email \in Emails, password \in Passwords :
             /\ WrongPasswordAttempt(email, password) /\ password # << >>
                  => WrongPasswordCounted(email, password)
             /\ SuccessResets(email, password)
             /\ LockedReturnsNone(email, password)
        /\ LockedNeverLowered]_vars

\* C19 witness: an account that has logged in, was then locked by five
\* wrong passwords, and on which update_profile and deactivate_account
\* have acted.
C19_Witness ==
  \E id \in DOMAIN users :
    /\ failed_attempts(users[id]) = 5
    /\ "last_login" \in DOMAIN users[id]
    /\ users[id].name = << "B", "o", "b" >>
    /\ ~users[id].is_active
    /\ svc_returned = ReturnedNone

====
